---- MODULE Spec2Model ----
(***************************************************************************)
(* Model of g2 (src/src/main.rs): a capture callback pushes samples into a *)
(* ringbuf SPSC ring buffer, a playback callback pops them, runs each      *)
(* through a per-sample filter (DelayFilter, FlangeFilter or               *)
(* DistortFilter) and writes the result into the device's output slots.    *)
(*                                                                         *)
(* Samples are f32 in the program.  Here a sample is an integer count of   *)
(* 1/Unit, Unit a power of two, and the gains are numerators over 2, so    *)
(* that every product the bounded runs compute is exact, as it is in f32   *)
(* for the same dyadic values.                                             *)
(***************************************************************************)
EXTENDS Integers, Sequences, FiniteSets, TLC

\* ---------------------------------------------------------------- bounds
MaxN == 2        \* queue capacities 1..MaxN stand for BUFFER_SIZE
MaxD == 3        \* delay_frames / buffer_size range over 0..MaxD
MaxAmp == 1      \* flange amplitude ranges over 0..MaxAmp
MaxQuarter == 2  \* frequency * sample_rate ranges over 0..MaxQuarter
MaxBlock == 2    \* longest block a callback is handed
MaxCap == 3      \* samples the capture device delivers in a run
MaxOut == 3      \* output slots the playback device requests in a run
FracBits == 6    \* fractional bits of the fixed-point sample

Unit == 2 ^ FracBits
Samples == {0 - Unit, 0, Unit}

VARIABLES
    phase,      \* "config" before the filter and queue are built, then "streaming"
    cfg,        \* the construction parameters (immutable)
    queue,      \* the RingBuffer shared by the two callbacks
    filt,       \* the filter's state, owned by the playback callback
    capPc,      \* capture callback: "idle", "run", "panicked"
    capLeft,    \* samples left in the block being captured
    pbPc,       \* playback callback: "idle", "run", "panicked"
    pbData,     \* the output block being filled, <<>> an unwritten slot
    pbIdx,      \* slots of pbData the loop has passed
    pushed,     \* history: the samples push accepted, in order
    out         \* history: every slot passed, [src: the sample fed to the
                \* filter or <<>>, val: the slot's content after the pass]

vars == <<phase, cfg, queue, filt, capPc, capLeft, pbPc, pbData, pbIdx, pushed, out>>

\* ------------------------------------------------- ringbuf::RingBuffer<f32>
\* capacity + 1 slots, head the read index, tail the write index; a slot is
\* <<>> (uninitialised or moved out) or <<v>>.
RbNew(capacity) ==
    [data |-> [i \in 1..(capacity + 1) |-> <<>>], head |-> 0, tail |-> 0]

RbIsEmpty(rb) == rb.head = rb.tail

RbIsFull(rb) == (rb.tail + 1) % Len(rb.data) = rb.head

RbLen(rb) == (rb.tail - rb.head + Len(rb.data)) % Len(rb.data)

\* Producer::push: Err(elem) on a full buffer, else write at tail and advance.
RbPush(rb, x) ==
    IF RbIsFull(rb)
    THEN [ok |-> FALSE, rb |-> rb]
    ELSE [ok |-> TRUE,
          rb |-> [rb EXCEPT !.data[rb.tail + 1] = <<x>>,
                            !.tail = (rb.tail + 1) % Len(rb.data)]]

\* Consumer::pop: None (<<>>) on an empty buffer, else move out of head and advance.
RbPop(rb) ==
    IF RbIsEmpty(rb)
    THEN [val |-> <<>>, rb |-> rb]
    ELSE [val |-> rb.data[rb.head + 1],
          rb |-> [rb EXCEPT !.data[rb.head + 1] = <<>>,
                            !.head = (rb.head + 1) % Len(rb.data)]]

\* The unread samples, oldest first.
RECURSIVE RbContentsFrom(_, _, _)
RbContentsFrom(rb, i, n) ==
    IF n = 0 THEN <<>>
    ELSE rb.data[i + 1] \o RbContentsFrom(rb, (i + 1) % Len(rb.data), n - 1)

RbContents(rb) == RbContentsFrom(rb, rb.head, RbLen(rb))

\* ------------------------------------------------------------- arithmetic
\* x * g for a gain g = gn / 2.
MulGain(x, gn) == (x * gn) \div 2

Abs(x) == IF x < 0 THEN 0 - x ELSE x

Sign(x) == IF x < 0 THEN 0 - 1 ELSE IF x > 0 THEN 1 ELSE 0

\* A filter step's outcome: a panic, or the value returned and the new state.
Panic(f) == [ok |-> FALSE, val |-> 0, filt |-> f]

Returns(v, f) == [ok |-> TRUE, val |-> v, filt |-> f]

\* ------------------------------------------------------------ DelayFilter
RECURSIVE FillZero(_)
FillZero(rb) == IF RbIsFull(rb) THEN rb ELSE FillZero(RbPush(rb, 0).rb)

\* A mutant: a ring one frame short.
DelayNew_OffByOne(delay_frames) == [rb |-> FillZero(RbNew(delay_frames - 1))]

DelayNew(delay_frames) == [rb |-> FillZero(RbNew(delay_frames))]

\* A mutant: the history comes back undecayed.
DelayFilter_NoDecay(c, f, sample) ==
    LET p == RbPop(f.rb) IN
    IF p.val = <<>> THEN Panic(f)
    ELSE LET result == sample + p.val[1]
             q == RbPush(p.rb, result)
         IN IF q.ok THEN Returns(result, [rb |-> q.rb]) ELSE Panic(f)

\* A mutant: the input, not the result, goes back into the ring.
DelayFilter_EchoInput(c, f, sample) ==
    LET p == RbPop(f.rb) IN
    IF p.val = <<>> THEN Panic(f)
    ELSE LET result == sample + MulGain(p.val[1], c.decay)
             q == RbPush(p.rb, sample)
         IN IF q.ok THEN Returns(result, [rb |-> q.rb]) ELSE Panic(f)

\* A mutant: the result is not written back.
DelayFilter_NoRefill(c, f, sample) ==
    LET p == RbPop(f.rb) IN
    IF p.val = <<>> THEN Panic(f)
    ELSE Returns(sample + MulGain(p.val[1], c.decay), [rb |-> p.rb])

DelayFilter(c, f, sample) ==
    LET p == RbPop(f.rb) IN
    IF p.val = <<>> THEN Panic(f)                 \* "Delay buffer empty?"
    ELSE LET result == sample + MulGain(p.val[1], c.decay)
             q == RbPush(p.rb, result)
         IN IF q.ok THEN Returns(result, [rb |-> q.rb])
            ELSE Panic(f)                         \* "Unable to refill delay buffer?"

\* ----------------------------------------------------------- FlangeFilter
FlangeNew(buffer_size) ==
    [buffer |-> [i \in 1..buffer_size |-> 0], read_offset |-> 0, t |-> 0]

\* 1000 * cos at 0, 15, .., 90 degrees.
CosQ == <<1000, 966, 866, 707, 500, 259, 0>>

\* 1000 * cos(k * 15 degrees).
CosMilli(k) ==
    LET m == k % 24 IN
    IF m <= 6 THEN CosQ[m + 1]
    ELSE IF m <= 12 THEN 0 - CosQ[13 - m]
    ELSE IF m <= 18 THEN 0 - CosQ[m - 11]
    ELSE CosQ[25 - m]

\* t * offset_coefficient in units of 15 degrees: offset_coefficient is
\* PI / (2 * frequency * sr), a quarter turn every frequency * sr samples.
Angle(c, t) == (6 * t) \div c.quarter

\* offset: ((cos(f) + 1) * amplitude + 1) as usize.  The cast truncates and
\* saturates: a negative value or NaN gives 0.  frequency = 0 makes the
\* coefficient infinite and the cosine NaN.  A mutant leaves the base lag
\* of 1 out.
Offset_NoBase(c, t) ==
    IF c.quarter = 0 THEN 0
    ELSE LET res == (CosMilli(Angle(c, t)) + 1000) * c.amplitude
         IN IF res < 0 THEN 0 ELSE res \div 1000

Offset(c, t) ==
    IF c.quarter = 0 THEN 0
    ELSE LET res == (CosMilli(Angle(c, t)) + 1000) * c.amplitude + 1000
         IN IF res < 0 THEN 0 ELSE res \div 1000

\* usize arithmetic wraps modulo UsizeMod where overflow checks are off
\* (2^30 stands for 2^64: every length here is far below either).
UsizeMod == 2 ^ 30

\* A mutant: the wrapped index comes out one short.
ReadIndex_WrapShort(f, reverse_offset, checks) ==
    IF f.read_offset >= reverse_offset THEN f.read_offset - reverse_offset
    ELSE Len(f.buffer) - reverse_offset + f.read_offset - 1

\* read_buffer's index.  checks: the build's overflow checks.  -1: the
\* subtraction overflowed and panicked.
ReadIndex(f, reverse_offset, checks) ==
    LET len == Len(f.buffer) IN
    IF f.read_offset >= reverse_offset THEN f.read_offset - reverse_offset
    ELSE IF len < reverse_offset /\ checks THEN 0 - 1
    ELSE (((len - reverse_offset) % UsizeMod) + f.read_offset) % UsizeMod

\* A mutant: the cursor wraps one step late.
WriteBuffer_LateWrap(f, sample) ==
    LET n == f.read_offset + 1 IN
    [f EXCEPT !.buffer[f.read_offset + 1] = sample,
              !.read_offset = IF n > Len(f.buffer) THEN 0 ELSE n]

\* write_buffer; the indexed store panics outside the buffer.
WriteBuffer(f, sample) ==
    LET n == f.read_offset + 1 IN
    [f EXCEPT !.buffer[f.read_offset + 1] = sample,
              !.read_offset = IF n >= Len(f.buffer) THEN 0 ELSE n]

\* t += 1.0 on an f32: exact up to 2^24, where t + 1.0 rounds back to t.
F32Succ(t) == IF t >= 2 ^ 24 THEN t ELSE t + 1

FlangeFilter(c, f, sample, checks) ==
    LET reverse_offset == Offset(c, f.t)
        idx == ReadIndex(f, reverse_offset, checks)
    IN IF idx < 0 \/ idx >= Len(f.buffer) THEN Panic(f)
       ELSE LET result == sample + MulGain(f.buffer[idx + 1], c.decay)
            IN IF f.read_offset >= Len(f.buffer) THEN Panic(f)
               ELSE Returns(result, [WriteBuffer(f, result) EXCEPT !.t = F32Succ(f.t)])

\* ---------------------------------------------------------- DistortFilter
\* f32::clamp asserts min <= max, then bounds the value.  A mutant bounds the value from above only.
Clamp_NoLower(x, min, max) == IF x > max THEN max ELSE x

Clamp(x, min, max) == IF x < min THEN min ELSE IF x > max THEN max ELSE x

DistortFilter(c, f, sample) ==
    IF 0 - c.saturation > c.saturation THEN Panic(f)
    ELSE Returns(Clamp(MulGain(sample, c.gain), 0 - c.saturation, c.saturation), f)

\* ------------------------------------------------------- the active filter
FilterNew(c) ==
    CASE c.kind = "Delay" -> DelayNew(c.D)
      [] c.kind = "Flange" -> FlangeNew(c.D)
      [] OTHER -> <<>>

FilterStep(c, f, sample, checks) ==
    CASE c.kind = "Delay" -> DelayFilter(c, f, sample)
      [] c.kind = "Flange" -> FlangeFilter(c, f, sample, checks)
      [] OTHER -> DistortFilter(c, f, sample)

\* ------------------------------------------------------------ the callbacks
\* One iteration of input_data_fn's loop: push, and panic on Err.  A mutant
\* of it writes and advances tail whether or not the buffer is full.
CaptureIter_Overwrite(rb, datum) ==
    [ok |-> TRUE,
     rb |-> [rb EXCEPT !.data[rb.tail + 1] = <<datum>>,
                       !.tail = (rb.tail + 1) % Len(rb.data)]]

CaptureIter_DropOldest(rb, datum) ==
    IF RbIsFull(rb) THEN RbPush(RbPop(rb).rb, datum) ELSE RbPush(rb, datum)

CaptureIter(rb, datum) == RbPush(rb, datum)

\* One iteration of output_data_fn's loop on slot i (from 1): the match on
\* the popped value, and the store into the slot.  fed: the sample passed to
\* the filter, <<>> when none was.
Fill(data, i, c, f, sample, checks) ==
    LET r == FilterStep(c, f, sample, checks) IN
    [ok |-> r.ok,
     data |-> IF r.ok THEN [data EXCEPT ![i] = <<r.val>>] ELSE data,
     filt |-> r.filt,
     fed |-> <<sample>>]

Silence(data, i, f) ==
    [ok |-> TRUE, data |-> [data EXCEPT ![i] = <<0>>], filt |-> f, fed |-> <<>>]

\* Mutants of it: on None, a zero sample goes through the filter; on None,
\* the previous slot's value goes through the filter again.
OutputIter_FilterSilence(data, i, popped, c, f, checks) ==
    IF popped = <<>>
    THEN [Fill(data, i, c, f, 0, checks) EXCEPT !.fed = <<>>]
    ELSE Fill(data, i, c, f, popped[1], checks)

OutputIter_RepeatLast(data, i, popped, c, f, checks) ==
    IF popped = <<>>
    THEN IF i > 1 THEN Fill(data, i, c, f, data[i - 1][1], checks)
         ELSE Silence(data, i, f)
    ELSE Fill(data, i, c, f, popped[1], checks)

OutputIter(data, i, popped, c, f, checks) ==
    IF popped = <<>>
    THEN Silence(data, i, f)
    ELSE Fill(data, i, c, f, popped[1], checks)

\* ------------------------------------------------------------ configurations
\* A run: the filter and queue parameters, how many samples the capture
\* device delivers (frames_in) and the playback device requests (frames_out)
\* in the stretch of the session the run follows, and how many samples of
\* silence went through the queue and the filter before it (elapsed).
\* The queue capacities vary under the program's own filter, a DistortFilter;
\* each filter's parameters vary over a queue of capacity MaxN.
QueueConfigs ==
    [kind : {"Distort"}, N : 1..MaxN, D : {0}, decay : {0},
     amplitude : {0}, quarter : {0}, gain : {2}, saturation : {Unit},
     frames_in : {MaxCap}, frames_out : {MaxOut}, elapsed : {0}]

DelayConfigs ==
    [kind : {"Delay"}, N : {MaxN}, D : 0..MaxD, decay : {1, 2},
     amplitude : {0}, quarter : {0}, gain : {0}, saturation : {0},
     frames_in : {MaxCap}, frames_out : {MaxOut}, elapsed : {0}]

FlangeConfigs ==
    [kind : {"Flange"}, N : {MaxN}, D : 0..MaxD, decay : {1},
     amplitude : 0..MaxAmp, quarter : 0..MaxQuarter, gain : {0}, saturation : {0},
     frames_in : {MaxCap}, frames_out : {MaxOut}, elapsed : {0}]

DistortConfigs ==
    [kind : {"Distort"}, N : {MaxN}, D : {0}, decay : {0},
     amplitude : {0}, quarter : {0}, gain : {1, 2, 3},
     saturation : {0 - Unit, Unit},
     frames_in : {MaxCap}, frames_out : {MaxOut}, elapsed : {0}]

Configs == QueueConfigs \cup DelayConfigs \cup FlangeConfigs \cup DistortConfigs

\* Late in a long session: a Flange filter that has run on silence for two
\* samples short of 2^24 (under six minutes at 48 kHz).
LongRunConfigs ==
    [kind : {"Flange"}, N : {MaxN}, D : 1..MaxD, decay : {1},
     amplitude : {0}, quarter : {1}, gain : {0}, saturation : {0},
     frames_in : {MaxCap}, frames_out : {MaxOut}, elapsed : {2 ^ 24 - 2}]

\* A Flange filter after c.elapsed samples of silence: each step read a
\* zero, wrote a zero at the cursor, advanced the cursor and added 1.0 to t.
FlangeAfterSilence(c) ==
    [buffer |-> [i \in 1..c.D |-> 0],
     read_offset |-> c.elapsed % c.D,
     t |-> c.elapsed]

\* The filter and the queue where the run starts.
FilterStart(c) == IF c.elapsed = 0 THEN FilterNew(c) ELSE FlangeAfterSilence(c)

QueueStart(c) ==
    LET i == c.elapsed % (c.N + 1)
    IN [RbNew(c.N) EXCEPT !.head = i, !.tail = i]

\* ------------------------------------------------------------------ actions
InitWith(C) ==
    /\ phase = "config"
    /\ cfg \in C
    /\ queue = RbNew(0)
    /\ filt = <<>>
    /\ capPc = "idle"
    /\ capLeft = 0
    /\ pbPc = "idle"
    /\ pbData = <<>>
    /\ pbIdx = 0
    /\ pushed = <<>>
    /\ out = <<>>

Init == InitWith(Configs)

\* main: the queue and the filter are built, then both streams play (and
\* have played cfg.elapsed samples of silence where the run starts late).
Construct ==
    /\ phase = "config"
    /\ phase' = "streaming"
    /\ queue' = QueueStart(cfg)
    /\ filt' = FilterStart(cfg)
    /\ UNCHANGED <<cfg, capPc, capLeft, pbPc, pbData, pbIdx, pushed, out>>

\* The device runtime calls input_data_fn with a block of n samples.
CaptureBegin ==
    /\ phase = "streaming"
    /\ capPc = "idle"
    /\ \E n \in 1..MaxBlock :
          /\ Len(pushed) + n <= cfg.frames_in
          /\ capLeft' = n
    /\ capPc' = "run"
    /\ UNCHANGED <<phase, cfg, queue, filt, pbPc, pbData, pbIdx, pushed, out>>

\* One datum of the block (its value is the device's choice); the callback
\* returns after the last.
CaptureStep ==
    /\ capPc = "run"
    /\ \E datum \in Samples :
          LET r == CaptureIter(queue, datum) IN
          IF r.ok
          THEN /\ queue' = r.rb
               /\ pushed' = Append(pushed, datum)
               /\ capLeft' = capLeft - 1
               /\ capPc' = IF capLeft = 1 THEN "idle" ELSE "run"
          ELSE /\ capPc' = "panicked"          \* "Unable to refill output buffer"
               /\ UNCHANGED <<queue, pushed, capLeft>>
    /\ UNCHANGED <<phase, cfg, filt, pbPc, pbData, pbIdx, out>>

\* The device runtime calls output_data_fn for k slots.
PlaybackBegin ==
    /\ phase = "streaming"
    /\ pbPc = "idle"
    /\ \E k \in 1..MaxBlock :
          /\ Len(out) + k <= cfg.frames_out
          /\ pbData' = [i \in 1..k |-> <<>>]
    /\ pbIdx' = 0
    /\ pbPc' = "run"
    /\ UNCHANGED <<phase, cfg, queue, filt, capPc, capLeft, pushed, out>>

\* One slot of the request.
PlaybackStep ==
    /\ pbPc = "run"
    /\ pbIdx < Len(pbData)
    /\ \E checks \in BOOLEAN :
          LET p == RbPop(queue)
              r == OutputIter(pbData, pbIdx + 1, p.val, cfg, filt, checks)
          IN /\ queue' = p.rb
             /\ filt' = r.filt
             /\ pbData' = r.data
             /\ IF r.ok
                THEN /\ pbIdx' = pbIdx + 1
                     /\ out' = Append(out, [src |-> r.fed, val |-> r.data[pbIdx + 1]])
                     /\ pbPc' = "run"
                ELSE /\ pbPc' = "panicked"
                     /\ UNCHANGED <<pbIdx, out>>
    /\ UNCHANGED <<phase, cfg, capPc, capLeft, pushed>>

\* The loop is over: output_data_fn returns the block to the device.
PlaybackReturn ==
    /\ pbPc = "run"
    /\ pbIdx = Len(pbData)
    /\ pbPc' = "idle"
    /\ pbData' = <<>>
    /\ pbIdx' = 0
    /\ UNCHANGED <<phase, cfg, queue, filt, capPc, capLeft, pushed, out>>

Next ==
    \/ Construct
    \/ CaptureBegin
    \/ CaptureStep
    \/ PlaybackBegin
    \/ PlaybackStep
    \/ PlaybackReturn

Spec == Init /\ [][Next]_vars

TypeOK ==
    /\ phase \in {"config", "streaming"}
    /\ capPc \in {"idle", "run", "panicked"}
    /\ pbPc \in {"idle", "run", "panicked"}
    /\ Len(pushed) <= cfg.frames_in
    /\ Len(out) <= cfg.frames_out

\* The configurations the design accepts: a ring of at least one frame, a
\* positive LFO frequency, a positive saturation bound.
ValidConfig(c) ==
    /\ c.kind \in {"Delay", "Flange"} => c.D >= 1
    /\ c.kind = "Flange" => c.quarter >= 1
    /\ c.kind = "Distort" => c.saturation > 0

SpecValid == InitWith({c \in Configs : ValidConfig(c)}) /\ [][Next]_vars

\* The runs of a Flange filter in a configuration the design accepts,
\* behind a queue of one frame.
FlangeValidConfigs ==
    [kind : {"Flange"}, N : {1}, D : 1..MaxD, decay : {1},
     amplitude : 0..MaxAmp, quarter : 1..MaxQuarter, gain : {0}, saturation : {0},
     frames_in : {MaxCap}, frames_out : {MaxOut}, elapsed : {0}]

SpecFlange == InitWith(FlangeValidConfigs) /\ [][Next]_vars

\* The same runs where the device keeps calling output_data_fn and a call
\* under way runs on to its return.
PlaybackFair ==
    /\ WF_vars(PlaybackBegin)
    /\ WF_vars(PlaybackStep)
    /\ WF_vars(PlaybackReturn)

SpecFair == SpecValid /\ PlaybackFair

\* A queue in front of the filter main builds (Distort), under the same
\* fairness.
SpecFairQueue == InitWith(QueueConfigs) /\ [][Next]_vars /\ PlaybackFair

\* The end-to-end scenario: a Delay filter of length 3 and decay 0.5 behind
\* a queue that holds five samples or more, five samples in and out.
E2EConfigs ==
    [kind : {"Delay"}, N : {5, 6}, D : {3}, decay : {1},
     amplitude : {0}, quarter : {0}, gain : {0}, saturation : {0},
     frames_in : {5}, frames_out : {5}, elapsed : {0}]

SpecE2E == InitWith(E2EConfigs) /\ [][Next]_vars

SpecLongRun == InitWith(LongRunConfigs) /\ [][Next]_vars

\* ------------------------------------------------------- history readings
IsFed(e) == e.src # <<>>

IsSilence(e) == e.src = <<>>

Fed == SelectSeq(out, IsFed)

\* The samples passed to the filter, and what the filter returned for them.
FedIn == [i \in 1..Len(Fed) |-> Fed[i].src[1]]

FedOut == [i \in 1..Len(Fed) |-> Fed[i].val[1]]

\* Samples popped so far: a filter that panics has taken its sample.
Popped == Len(Fed) + (IF pbPc = "panicked" THEN 1 ELSE 0)

IsPrefix(a, b) == Len(a) <= Len(b) /\ \A i \in 1..Len(a) : a[i] = b[i]

\* A step of the playback loop: from a slot still to fill, something moved.
PlaybackMoved ==
    /\ pbPc = "run"
    /\ pbIdx < Len(pbData)
    /\ <<pbPc, pbIdx, out, filt, queue.head>>' # <<pbPc, pbIdx, out, filt, queue.head>>

\* What the filter returns for the samples xs, one after the other, from
\* the state f.
RECURSIVE FilterRun(_, _, _)
FilterRun(c, f, xs) ==
    IF xs = <<>> THEN <<>>
    ELSE LET r == FilterStep(c, f, Head(xs), TRUE)
         IN <<r.val>> \o FilterRun(c, r.filt, Tail(xs))

IsImpulse(xs) ==
    /\ Len(xs) >= 1
    /\ xs[1] = Unit
    /\ \A i \in 2..Len(xs) : xs[i] = 0

\* x * g^k, as k products.
RECURSIVE GPow(_, _, _)
GPow(x, gn, k) == IF k = 0 THEN x ELSE GPow(MulGain(x, gn), gn, k - 1)

\* ------------------------------------------------------------------ claims

\* C1: a push onto a full queue drops the incoming sample and the capture
\* callback goes on: the queue keeps the accepted samples not yet popped, in
\* order, and the capture callback never reaches a panic.
C1_FullPushDropsNewest ==
    /\ capPc # "panicked"
    /\ phase = "streaming" =>
          RbContents(queue) = SubSeq(pushed, Popped + 1, Len(pushed))

\* The samples accepted and not yet popped.
Unread == Len(pushed) - Popped

\* C2: under every interleaving the number of unread samples (accepted and
\* not yet popped) is what the queue reports and lies in 0..N, and a pop on
\* an empty queue returns none: the slot gets no sample from the queue and
\* the queue is left as it was.
C2_QueueBounds ==
    /\ [](phase = "streaming" =>
             /\ Unread = RbLen(queue)
             /\ Unread >= 0
             /\ Unread <= cfg.N)
    /\ [][(PlaybackMoved /\ RbIsEmpty(queue)) =>
             /\ Len(out') = Len(out) + 1
             /\ out'[Len(out')].src = <<>>
             /\ queue' = queue]_vars

C2_Witness ==
    /\ phase = "streaming"
    /\ RbIsFull(queue)
    /\ RbLen(queue) = cfg.N
    /\ \E i \in 1..Len(out) : IsSilence(out[i])
    /\ \E i \in 1..Len(out) : IsFed(out[i])

\* C3: a playback step that finds the queue empty writes zero into its slot,
\* leaves the filter's state as it was and does not fail; so the real
\* samples get the outputs the filter gives them with no underrun between.
C3_UnderrunSilence ==
    /\ [](phase = "streaming" => FedOut = FilterRun(cfg, FilterNew(cfg), FedIn))
    /\ [][(PlaybackMoved /\ RbIsEmpty(queue)) =>
          /\ pbPc' = "run"
          /\ pbIdx' = pbIdx + 1
          /\ pbData'[pbIdx + 1] = <<0>>
          /\ out'[Len(out')] = [src |-> <<>>, val |-> <<0>>]
          /\ filt' = filt]_vars

\* An underrun between two real samples of a filter that holds history.
C3_Witness ==
    /\ cfg.kind \in {"Delay", "Flange"}
    /\ Len(out) >= 3
    /\ IsFed(out[1]) /\ out[1].src[1] # 0
    /\ IsSilence(out[2])
    /\ IsFed(out[3])

\* C4: the samples passed to the filter are, in order, the first of the
\* samples the queue accepted: none twice, none out of order.
C4_OrderPreserved == IsPrefix(FedIn, pushed)

C4_Witness ==
    /\ Len(FedIn) >= 2
    /\ FedIn[1] # FedIn[2]
    /\ \E i \in 1..Len(out) : IsSilence(out[i])
    /\ Len(pushed) > Len(FedIn)

\* C5: every playback request for k slots completes having written exactly
\* k slots: the playback callback never stops short of its block, and when
\* its loop is over every slot of the block holds a value.
C5_ExactlyK ==
    /\ pbPc # "panicked"
    /\ (pbPc = "run" /\ pbIdx = Len(pbData)) =>
          \A i \in 1..Len(pbData) : pbData[i] # <<>>

\* C6: for every buffer length D >= 1 the index the Flange filter's history
\* read computes lies in [0, D), and the filter step does not fail.
C6_FlangeIndexInRange ==
    (phase = "streaming" /\ cfg.kind = "Flange" /\ cfg.D >= 1) =>
       /\ pbPc # "panicked"
       /\ \A checks \in BOOLEAN :
             LET idx == ReadIndex(filt, Offset(cfg, filt.t), checks)
             IN idx >= 0 /\ idx < cfg.D

\* C7: no filter in an invalid configuration (a zero-length delay or flange
\* buffer, a non-positive LFO frequency) reaches the streaming state, and no
\* filter step fails because of one.
C7_InvalidConfigRejected ==
    /\ phase = "streaming" =>
          /\ cfg.kind \in {"Delay", "Flange"} => cfg.D >= 1
          /\ cfg.kind = "Flange" => cfg.quarter >= 1
    /\ pbPc = "panicked" => (cfg.kind \in {"Delay", "Flange"} => cfg.D >= 1)

\* C8 as stated: for a unit impulse into a Delay filter of length D and
\* decay g the output is 0 at the first D-1 samples (indices 0..D-2), g at
\* index D, g^2 at index 2D, and so on.
C8_ImpulseAsStated ==
    (cfg.kind = "Delay" /\ cfg.D >= 1 /\ IsImpulse(FedIn)) =>
       \A n \in 0..(Len(FedOut) - 1) :
          /\ n < cfg.D - 1 => FedOut[n + 1] = 0
          /\ (n >= cfg.D /\ n % cfg.D = 0) =>
                FedOut[n + 1] = GPow(Unit, cfg.decay, n \div cfg.D)

\* C8 as amended: the output is the impulse itself (1) at index 0, g^k at
\* index k*D for k >= 1, and 0 at every other index.
C8_ImpulseResponse ==
    (cfg.kind = "Delay" /\ cfg.D >= 1 /\ IsImpulse(FedIn)) =>
       \A n \in 0..(Len(FedOut) - 1) :
          FedOut[n + 1] = IF n % cfg.D = 0
                          THEN GPow(Unit, cfg.decay, n \div cfg.D)
                          ELSE 0

C8_Witness ==
    /\ cfg.kind = "Delay"
    /\ cfg.D >= 1
    /\ cfg.decay = 1
    /\ IsImpulse(FedIn)
    /\ Len(FedOut) >= 2 * cfg.D + 1
    /\ FedOut[2 * cfg.D + 1] = Unit \div 4

Impulse5 == <<Unit, 0, 0, 0, 0>>

\* C9 as stated: capture samples [1,0,0,0,0] through a queue of capacity
\* >= 5 and a Delay filter of length 3 and decay 0.5 give the playback
\* outputs [0, 0, 0, 0.5, 0].
C9_EndToEndAsStated ==
    IsPrefix(pushed, Impulse5) => IsPrefix(FedOut, <<0, 0, 0, Unit \div 2, 0>>)

\* C9 as amended: the playback outputs are [1, 0, 0, 0.5, 0].
C9_EndToEnd ==
    IsPrefix(pushed, Impulse5) => IsPrefix(FedOut, <<Unit, 0, 0, Unit \div 2, 0>>)

\* All five pushed before the first pull, then five pulls.
C9_Witness ==
    /\ pushed = Impulse5
    /\ Len(out) = 5
    /\ FedOut = <<Unit, 0, 0, Unit \div 2, 0>>
    /\ cfg.N >= 5 /\ cfg.D = 3 /\ cfg.decay = 1

\* C10: the Distort filter returns x*gain where |x*gain| <= s, and s with
\* the sign of x*gain where |x*gain| > s; it holds no state, so the output
\* for a sample is the same wherever the sample comes in the stream.
C10_DistortClamp ==
    cfg.kind = "Distort" =>
       /\ filt = <<>>
       /\ \A i \in 1..Len(Fed) :
             LET v == (FedIn[i] * cfg.gain) \div 2
                 y == FedOut[i]
             IN /\ Abs(v) <= cfg.saturation => y = v
                /\ Abs(v) > cfg.saturation =>
                      (Abs(y) = cfg.saturation /\ Sign(y) = Sign(v))

\* A clipped negative sample, a clipped positive one and a zero in one run.
C10_Witness ==
    /\ cfg.kind = "Distort"
    /\ cfg.gain = 3
    /\ Len(Fed) >= 3
    /\ \E i \in 1..Len(Fed) : FedIn[i] = 0 - Unit /\ FedOut[i] = 0 - Unit
    /\ \E i \in 1..Len(Fed) : FedIn[i] = Unit /\ FedOut[i] = Unit
    /\ \E i \in 1..Len(Fed) : FedIn[i] = 0 /\ FedOut[i] = 0

\* C16: the Flange filter's elapsed-sample counter t starts at 0, grows by
\* exactly one with every sample processed, and so always equals the number
\* of samples the filter has processed: it never stalls.
C16_ElapsedCountsSamples ==
    (phase = "streaming" /\ cfg.kind = "Flange") =>
       filt.t = cfg.elapsed + Len(Fed)

CaptureMoved ==
    /\ capPc = "run"
    /\ <<capPc, capLeft, pushed, queue.tail>>' # <<capPc, capLeft, pushed, queue.tail>>

\* The slots of the queue other than slot i are the same before and after.
SlotsKeptExcept(i) ==
    \A j \in 1..Len(queue.data) : j # i + 1 => queue'.data[j] = queue.data[j]

\* C12: a capture step changes only the queue's write index and the slot it
\* writes, and leaves the read index, the filter and the output alone; a
\* playback step changes only the read index, the filter and the output
\* slots, and leaves the write index, the capture side and the samples still
\* unread alone.
C12_SingleWriter ==
    [][ /\ CaptureMoved =>
              /\ queue'.head = queue.head
              /\ SlotsKeptExcept(queue.tail)
              /\ IsPrefix(RbContents(queue), RbContents(queue'))
              /\ UNCHANGED <<filt, pbPc, pbData, pbIdx, out>>
        /\ PlaybackMoved =>
              /\ queue'.tail = queue.tail
              /\ SlotsKeptExcept(queue.head)
              /\ RbContents(queue') \in
                    {RbContents(queue), SubSeq(RbContents(queue), 2, RbLen(queue))}
              /\ UNCHANGED <<capPc, capLeft, pushed>>
      ]_vars

\* Both callbacks are in their loops, the queue holds an unread sample and
\* the playback side has already taken one through a filter with state.
C12_Witness ==
    /\ capPc = "run"
    /\ pbPc = "run"
    /\ pbIdx >= 1
    /\ cfg.kind \in {"Delay", "Flange"}
    /\ Len(Fed) >= 1
    /\ RbLen(queue) >= 1

\* C13: a Delay filter of length D >= 1 and decay g returns y[n] = x[n] for
\* the first D inputs and y[n] = x[n] + g * y[n - D] from then on (n counted
\* from 0; the sequences here start at 1).
C13_DelayRecurrence ==
    (phase = "streaming" /\ cfg.kind = "Delay" /\ cfg.D >= 1) =>
       \A n \in 1..Len(Fed) :
          FedOut[n] = IF n <= cfg.D THEN FedIn[n]
                      ELSE FedIn[n] + MulGain(FedOut[n - cfg.D], cfg.decay)

\* An output that carries a non-zero echo of the output D samples before it.
C13_Witness ==
    /\ phase = "streaming"
    /\ cfg.kind = "Delay"
    /\ cfg.D >= 1
    /\ \E n \in 1..Len(Fed) :
          /\ n > 2 * cfg.D
          /\ FedOut[n - cfg.D] # FedIn[n - cfg.D]
          /\ FedOut[n] # FedIn[n]

\* C17: a Delay filter of length D >= 1 holds exactly D samples in its ring,
\* all zero at construction, before and after every filter call, so neither
\* the pop nor the push inside a call fails and playback never panics.
C17_DelayRingFull ==
    (phase = "streaming" /\ cfg.kind = "Delay" /\ cfg.D >= 1) =>
       /\ RbLen(filt.rb) = cfg.D
       /\ pbPc # "panicked"
       /\ RbContents(FilterNew(cfg).rb) = [i \in 1..cfg.D |-> 0]
       /\ \A x \in Samples :
             /\ DelayFilter(cfg, filt, x).ok
             /\ RbLen(DelayFilter(cfg, filt, x).filt.rb) = cfg.D

\* A Delay filter that has been called more often than its ring is long.
C17_Witness ==
    /\ phase = "streaming"
    /\ cfg.kind = "Delay"
    /\ cfg.D >= 1
    /\ Len(Fed) > cfg.D
    /\ RbLen(filt.rb) = cfg.D

\* The samples the Flange filter has processed since construction.
Processed == cfg.elapsed + Len(Fed)

\* C14: the write cursor of a Flange filter of length D >= 1 is within
\* [0, D) in every reachable state; each processed sample stores its output
\* at the cursor and then moves the cursor on by one modulo D.
C14_WriteCursor ==
    (phase = "streaming" /\ cfg.kind = "Flange" /\ cfg.D >= 1) =>
       /\ filt.read_offset \in 0..(cfg.D - 1)
       /\ filt.read_offset = Processed % cfg.D
       /\ Len(Fed) >= 1 =>
             filt.buffer[((Processed - 1) % cfg.D) + 1] = FedOut[Len(Fed)]
       /\ \A x \in Samples :
             /\ WriteBuffer(filt, x).buffer =
                   [filt.buffer EXCEPT ![filt.read_offset + 1] = x]
             /\ WriteBuffer(filt, x).read_offset = (filt.read_offset + 1) % cfg.D

\* The cursor has gone round a ring of two or more slots and is back at 0.
C14_Witness ==
    /\ phase = "streaming"
    /\ cfg.kind = "Flange"
    /\ cfg.D >= 2
    /\ Len(Fed) >= cfg.D
    /\ filt.read_offset = 0
    /\ filt.buffer[cfg.D] = FedOut[Len(Fed)]

\* The output written r processed samples ago; zero where none was.
WrittenAgo(r) ==
    IF r >= 1 /\ r <= Len(Fed) THEN FedOut[Len(Fed) + 1 - r] ELSE 0

\* The element read_buffer returns for the reverse offset r.
ReadAt(r, checks) == filt.buffer[ReadIndex(filt, r, checks) + 1]

\* C15 as stated: for every reverse offset r in 0..D the history read
\* returns the element at (c - r) mod D, which is the value written r
\* processed samples ago, or the initial zero.
C15_ReadAsStated ==
    (phase = "streaming" /\ cfg.kind = "Flange" /\ cfg.D >= 1) =>
       \A r \in 0..cfg.D : \A checks \in BOOLEAN :
          /\ ReadIndex(filt, r, checks) = (filt.read_offset + cfg.D - r) % cfg.D
          /\ ReadAt(r, checks) = WrittenAgo(r)

\* C15: for every reverse offset r in 0..D the history read returns the
\* element at (c - r) mod D; for 1 <= r <= D that is the value written r
\* processed samples ago (or the initial zero), and for r = 0 it is the
\* element under the cursor, the oldest one, written D samples ago.
C15_ReadLaw ==
    (phase = "streaming" /\ cfg.kind = "Flange" /\ cfg.D >= 1) =>
       \A r \in 0..cfg.D : \A checks \in BOOLEAN :
          /\ ReadIndex(filt, r, checks) = (filt.read_offset + cfg.D - r) % cfg.D
          /\ ReadAt(r, checks) = WrittenAgo(IF r = 0 THEN cfg.D ELSE r)

\* A read that wraps round the ring (r > c) to a non-zero output.
C15_Witness ==
    /\ phase = "streaming"
    /\ cfg.kind = "Flange"
    /\ cfg.D >= 2
    /\ \E r \in 1..cfg.D :
          /\ r > filt.read_offset
          /\ r <= Len(Fed)
          /\ ReadAt(r, TRUE) # 0
          /\ ReadAt(r, TRUE) = FedOut[Len(Fed) + 1 - r]

\* Output slots the run has still to ask for.
Remaining == cfg.frames_out - Len(out)

\* C18: with playback called again and again, every sample the queue has
\* accepted is in the end passed to the filter and output (the k-th accepted
\* sample as the k-th filtered slot, given slots enough left in the run),
\* and it never has more than N - 1 accepted samples in front of it.
C18_HandOff ==
    /\ [](phase = "streaming" => Len(pushed) - Popped <= cfg.N)
    /\ [](IsPrefix(FedIn, pushed))
    /\ \A k \in 1..MaxCap :
          []((Len(pushed) >= k /\ Remaining >= k - Len(Fed)) => <>(Len(Fed) >= k))

\* Output slots filled with silence.
ZeroFilled == Len(SelectSeq(out, IsSilence))

\* C19: in every reachable state the samples the queue accepted are the
\* samples passed to the filter plus those still in the queue, and the
\* output slots written are the filter invocations plus the slots filled
\* with silence.
C19_Accounting ==
    phase = "streaming" =>
       /\ Len(pushed) = Popped + RbLen(queue)
       /\ Len(out) = Popped + ZeroFilled

====
